---- MODULE Spec2Model ----
(***************************************************************************)
(* bustop: the sampling and aggregation engine (MetricsCollector) and the  *)
(* driver loop around it.                                                  *)
(*                                                                         *)
(* Conventions of the model:                                               *)
(*  - Strings that the code searches with str::contains are sequences of   *)
(*    one-character strings, and Contains is a real substring search.      *)
(*  - f64 values are exact rationals: records [num, den] with den > 0.     *)
(*  - u64 is modelled at the width of the checker's integers: U64_MAX      *)
(*    stands for u64::MAX, and every counter of the model stays below it.  *)
(*  - Instant and Duration are counted in clock ticks, TicksPerMs ticks to *)
(*    the millisecond, so that Duration::as_millis truncates.              *)
(*  - timestamp_ms, swap usage and the two pressure levels are read from   *)
(*    the OS and copied into the snapshot unchanged; they are left out.    *)
(***************************************************************************)
EXTENDS Integers, Sequences, FiniteSets, TLC

(* ------------------------------ bounds --------------------------------- *)

\* collect() calls in one run of the driver loop
MaxTicks == 3
\* channel readings in one IOReport delta
MaxSamples == 2
\* resolution of the monotonic clock, in ticks per millisecond
TicksPerMs == 2

(* --------------------------- program constants -------------------------- *)

\* u64::MAX, the result of a saturating float-to-integer cast
U64_MAX == 2147483647
\* hw.pagesize default when the read fails
DefaultPageSize == 4096
\* --interval default_value_t
DefaultIntervalMs == 1000

TicksPerSec == 1000 * TicksPerMs

(* ------------------------------ strings -------------------------------- *)

PAT_ECPU == <<"E","C","P","U">>
PAT_E_CLUSTER == <<"E","-","C","l","u","s","t","e","r">>
PAT_PCPU == <<"P","C","P","U">>
PAT_P_CLUSTER == <<"P","-","C","l","u","s","t","e","r">>
PAT_IDLE == <<"I","D","L","E">>
PAT_PERF_STATES == <<"P","e","r","f","o","r","m","a","n","c","e"," ","S","t","a","t","e","s">>
PAT_CPU == <<"C","P","U">>
PAT_GPU == <<"G","P","U">>
PAT_ANE == <<"A","N","E">>
PAT_DRAM == <<"D","R","A","M">>

SG_COMPLEX == <<"C","P","U"," ","C","o","m","p","l","e","x"," ","P","e","r","f","o","r","m","a","n","c","e"," ","S","t","a","t","e","s">>
SG_GPU == <<"G","P","U"," ","P","e","r","f","o","r","m","a","n","c","e"," ","S","t","a","t","e","s">>
SG_NONE == <<>>

CH_ECPU == <<"E","C","P","U">>
CH_ECPU_IDLE == <<"E","C","P","U"," ","I","D","L","E">>
CH_PCPU == <<"P","C","P","U">>
CH_PCPU_IDLE == <<"P","C","P","U"," ","I","D","L","E">>
CH_E_CLUSTER == <<"E","-","C","l","u","s","t","e","r">>
CH_GPU == <<"G","P","U">>
CH_ANE == <<"A","N","E">>
CH_DRAM == <<"D","R","A","M">>
CH_GPUPH == <<"G","P","U","P","H">>
CH_ISP == <<"I","S","P">>
CH_GPU_SRAM == <<"G","P","U"," ","S","R","A","M">>

\* str::contains
Contains(s, pat) ==
    \E i \in 0..(Len(s) - Len(pat)) : SubSeq(s, i + 1, i + Len(pat)) = pat

(* ------------------------------ numbers -------------------------------- *)

Max(a, b) == IF a >= b THEN a ELSE b

\* floor(a * m / d) for a, m >= 0 and d > 0, without forming a * m
FloorMulDiv(a, m, d) == (a \div d) * m + ((a % d) * m) \div d

\* f64 percentages as exact fractions
Frac(n, d) == [num |-> n, den |-> d]
FracEq(a, b) == a.num * b.den = b.num * a.den
FracLeq(a, b) == a.num * b.den <= b.num * a.den
FracAdd(a, b) ==
    IF a.den = b.den THEN Frac(a.num + b.num, a.den)
    ELSE Frac(a.num * b.den + b.num * a.den, a.den * b.den)
FracSub(a, b) ==
    IF a.den = b.den THEN Frac(a.num - b.num, a.den)
    ELSE Frac(a.num * b.den - b.num * a.den, a.den * b.den)
FracDiv(a, k) == Frac(a.num, a.den * k)
FracMin(a, b) == IF FracLeq(a, b) THEN a ELSE b
Hundred == Frac(100, 1)
Zero == Frac(0, 1)

(* ------------------------------- state --------------------------------- *)

VARIABLES
    pc,               \* position of main: "start", "loop" (at the test of the while),
                      \* "collect", "output", "sleep", "exit", "failed" (new returned
                      \* Err), "panicked"
    args,             \* main: args, [count, json, append]
    running,          \* main: the flag the Ctrl-C handler clears
    first,            \* main: first
    overflow_checks,  \* build profile: TRUE panics on integer overflow, FALSE wraps
    clock,            \* the monotonic clock (Instant::now) at its last reading
    sample_count,     \* main: sample_count
    sysctl_info,      \* MetricsCollector.sysctl_info
    ioreport,         \* MetricsCollector.ioreport: [some, prev_sample]
    smc,              \* MetricsCollector.smc: [some]
    memory_stats,     \* MetricsCollector.memory_stats
    disk_stats,       \* MetricsCollector.disk_stats: [prev_snapshots]
    last_sample,      \* MetricsCollector.last_sample
    interval,         \* MetricsCollector.interval, in ticks
    metrics,          \* main: the snapshot of this iteration, <<>> when none
    measured,         \* history: the [from, to] clock interval each collect measured
    created_at,       \* history: the clock at construction
    vm_seen,          \* history: the VM statistics this collect and the one before read
    disk_seen,        \* history: the disk snapshots this collect and the one before read
    io_seen,          \* history: the channel readings this collect aggregated
    boot,             \* history: what the OS answered while the collector was constructed
    good,             \* history: the last VM statistics and disk snapshots read with
                      \* success before the newest read; once the snapshot is dropped,
                      \* kept only where the newest read failed
    handles,          \* history: per kind of OS handle, how many are held and whether
                      \* one was released that was not held
    emitted,          \* history: how many snapshots main has printed
    cleared_at        \* history: <<n>> once `running` is cleared, n the number of
                      \* collect() calls made by then; <<>> before

vars ==
    <<pc, overflow_checks, clock, sample_count, sysctl_info, ioreport, memory_stats,
      disk_stats, last_sample, interval, metrics, measured, created_at, vm_seen, disk_seen,
      io_seen, smc, boot, good, handles, args, running, first, emitted, cleared_at>>

(* --------------------------- what the OS returns ------------------------ *)

\* the fields of vm_statistics64 that get_metrics reads
VmStatistics64(free, active, inactive, wire, compressor, speculative, pi, po, f) ==
    [free_count |-> free, active_count |-> active, inactive_count |-> inactive,
     wire_count |-> wire, compressor_page_count |-> compressor,
     speculative_count |-> speculative, pageins |-> pi, pageouts |-> po, faults |-> f]

\* VmStatistics64::default()
VmDefault == VmStatistics64(0, 0, 0, 0, 0, 0, 0, 0, 0)

\* cumulative page counters the kernel may report
PageCounterVals == {0, 120, 50000}

\* host_statistics64: a result code and the statistics it filled in
VmReads ==
    { [result |-> 0, stats |-> VmStatistics64(2, fa[1], 2, 1, 1, fa[2], pi, po, f)] :
        fa \in {<<3, 1>>, <<0, 5>>}, pi \in PageCounterVals, po \in PageCounterVals,
        f \in PageCounterVals }
    \cup { [result |-> 5, stats |-> VmDefault] }

\* an uneventful read: the counters stand still
VmQuiet == [result |-> 0, stats |-> VmStatistics64(2, 3, 2, 1, 1, 1, 120, 120, 120)]

Devices == {"disk0", "disk1"}

DiskSnapshot(rb, wb, ro, wo) ==
    [read_bytes |-> rb, write_bytes |-> wb, read_ops |-> ro, write_ops |-> wo]

\* the Statistics dictionary of a block storage driver
DriverStats(name) ==
    IF name = "disk0"
    THEN { DiskSnapshot(rb, w[1], w[2], w[3]) :
             rb \in {0, 1000000, 3000000}, w \in {<<0, 0, 3>>, <<4096, 7, 9>>} }
    ELSE { DiskSnapshot(0, 0, 0, 0), DiskSnapshot(2000, 500, 20, 5) }

\* get_disk_snapshots: a map from device name to its counters, possibly empty
DiskReads ==
    UNION { { f \in [present -> UNION { DriverStats(n) : n \in present }] :
                \A n \in present : f[n] \in DriverStats(n) } :
            present \in SUBSET Devices }

DiskQuiet == [n \in {"disk0"} |-> DiskSnapshot(1000000, 4096, 7, 9)]

\* the orders in which a HashMap of these keys may be iterated
Orders(keys) ==
    { o \in [1..Cardinality(keys) -> keys] : \A n \in keys : \E i \in DOMAIN o : o[i] = n }

IOReportSample(group, subgroup, channel, value) ==
    [group |-> group, subgroup |-> subgroup, channel |-> channel, value |-> value]

\* readings of the residency channels; IOReportSimpleValue is an i64, negative
\* when a counter went back
ResidencyReadings ==
    { IOReportSample("CPU Stats", SG_COMPLEX, CH_ECPU, 30),
      IOReportSample("CPU Stats", SG_COMPLEX, CH_ECPU, -50),
      IOReportSample("CPU Stats", SG_COMPLEX, CH_ECPU_IDLE, 70),
      IOReportSample("CPU Stats", SG_COMPLEX, CH_ECPU_IDLE, -50),
      IOReportSample("CPU Stats", SG_COMPLEX, CH_PCPU, 30),
      IOReportSample("CPU Stats", SG_COMPLEX, CH_PCPU_IDLE, 70) }

\* readings of the energy channels
EnergyReadings ==
    { IOReportSample("Energy Model", SG_NONE, CH_ECPU, 70),
      IOReportSample("Energy Model", SG_NONE, CH_GPU, 30),
      IOReportSample("Energy Model", SG_NONE, CH_ANE, 30),
      IOReportSample("Energy Model", SG_NONE, CH_DRAM, 70) }

\* readings the aggregator has no use for
OtherReadings ==
    { IOReportSample("CPU Stats", SG_NONE, CH_E_CLUSTER, 70),
      IOReportSample("Energy Model", SG_NONE, CH_ISP, 70),
      IOReportSample("GPU Stats", SG_GPU, CH_GPUPH, 70) }

Readings == ResidencyReadings \cup EnergyReadings \cup OtherReadings

SeqsUpTo(S, n) == UNION { [1..k -> S] : k \in 0..n }

\* E-cluster total 100 / active 30, P-cluster total 200 / active 150
ScenarioA ==
    << IOReportSample("CPU Stats", SG_COMPLEX, CH_ECPU, 30),
       IOReportSample("CPU Stats", SG_COMPLEX, CH_ECPU_IDLE, 70),
       IOReportSample("CPU Stats", SG_COMPLEX, CH_PCPU, 150),
       IOReportSample("CPU Stats", SG_COMPLEX, CH_PCPU_IDLE, 50) >>

\* two energy channels of the GPU domain with different values
TwoGpuChannels ==
    << IOReportSample("Energy Model", SG_NONE, CH_GPU, 30),
       IOReportSample("Energy Model", SG_NONE, CH_GPU_SRAM, 70) >>

\* IOReport::get_sample: what IOReportCreateSamples / IOReportCreateSamplesDelta give
IoReads ==
    { [outcome |-> "sample_null", samples |-> <<>>],
      [outcome |-> "delta_null", samples |-> <<>>] }
    \cup { [outcome |-> "ok", samples |-> s] : s \in SeqsUpTo(Readings, MaxSamples) \cup {ScenarioA, TwoGpuChannels} }

IoQuiet == [outcome |-> "ok", samples |-> <<>>]

\* each outcome of get_sample once
IoReadsLife ==
    { [outcome |-> "sample_null", samples |-> <<>>],
      [outcome |-> "delta_null", samples |-> <<>>],
      [outcome |-> "ok", samples |-> ScenarioA],
      [outcome |-> "ok",
       samples |-> << IOReportSample("Energy Model", SG_NONE, CH_GPU, 30),
                      IOReportSample("Energy Model", SG_NONE, CH_ANE, 30) >>] }

\* SysctlInfo::new: every read falls back to a default
SysctlReads ==
    { [cpu_cores |-> e + p, cpu_cores_perf |-> p, cpu_cores_eff |-> e,
       physical_memory |-> m, page_size |-> ps] :
        e \in {0, 4}, p \in {0, 4}, m \in {0, 1073741824}, ps \in {DefaultPageSize, 16384} }

SysctlUsual ==
    [cpu_cores |-> 8, cpu_cores_perf |-> 4, cpu_cores_eff |-> 4,
     physical_memory |-> 1073741824, page_size |-> 16384]

\* what one sysctlbyname read gives: Ok(value) or Err
SysctlOk(v) == [ok |-> TRUE, value |-> v]
SysctlErr == [ok |-> FALSE, value |-> 0]

\* the five numeric reads of SysctlInfo::new, all succeeding with the values of `sys`
Succeeding(sys) ==
    [ncpu |-> SysctlOk(sys.cpu_cores), perflevel0 |-> SysctlOk(sys.cpu_cores_perf),
     perflevel1 |-> SysctlOk(sys.cpu_cores_eff), memsize |-> SysctlOk(sys.physical_memory),
     pagesize |-> SysctlOk(sys.page_size)]

\* the reads on a usual machine, each group of them failing or not: the core
\* counts, the memory size, the page size
SysctlOsReads ==
    { [ncpu |-> IF c THEN SysctlOk(8) ELSE SysctlErr,
       perflevel0 |-> IF c THEN SysctlOk(4) ELSE SysctlErr,
       perflevel1 |-> IF c THEN SysctlOk(4) ELSE SysctlErr,
       memsize |-> IF m THEN SysctlOk(1073741824) ELSE SysctlErr,
       pagesize |-> IF ps THEN SysctlOk(16384) ELSE SysctlErr] :
        c \in BOOLEAN, m \in BOOLEAN, ps \in BOOLEAN }

\* IOReport::new: whether dlopen gave a handle, how many of the channel groups
\* gave a dictionary, whether IOReportCreateSubscription gave a subscription
IoOs(dlopen, channels, subscription) ==
    [dlopen |-> dlopen, channels |-> channels, subscription |-> subscription]
IoOsOk == IoOs(TRUE, 2, TRUE)
IoOsNoFramework == IoOs(FALSE, 0, FALSE)
IoOsReads ==
    { IoOsOk, IoOsNoFramework, IoOs(TRUE, 0, FALSE), IoOs(TRUE, 1, FALSE), IoOs(TRUE, 1, TRUE) }

\* Smc::new: how far it got
SmcOsReads == {"ok", "no_matching", "no_service", "open_failed"}

\* time that may pass between two readings of the clock, in ticks
Elapsed == {0, 1, TicksPerMs + 1, TicksPerSec, 2 * TicksPerSec}

OneSec == TicksPerSec

(* ------------------------------ OS handles ------------------------------ *)

HandleKinds == {"channels", "subscription", "sample", "delta", "connection"}

NoHandles == [k \in HandleKinds |-> [live |-> 0, over |-> FALSE]]

\* a Create / Copy / Open call that gave a handle
Acquire(h, kind) == [h EXCEPT ![kind].live = @ + 1]

\* CFRelease / IOServiceClose on a handle of the kind
Release(h, kind) ==
    IF h[kind].live > 0 THEN [h EXCEPT ![kind].live = @ - 1] ELSE [h EXCEPT ![kind].over = TRUE]

(* --------------------------- sources/sysctl.rs -------------------------- *)

\* Result::unwrap_or
UnwrapOr(read, default) == IF read.ok THEN read.value ELSE default

\* SysctlInfo::new: Ok whatever the reads gave
SysctlInfoNew(os) ==
    [ok |-> TRUE,
     value |->
        [cpu_cores |-> UnwrapOr(os.ncpu, 0),
         cpu_cores_perf |-> UnwrapOr(os.perflevel0, 0),
         cpu_cores_eff |-> UnwrapOr(os.perflevel1, 0),
         physical_memory |-> UnwrapOr(os.memsize, 0),
         page_size |-> UnwrapOr(os.pagesize, DefaultPageSize)]]

(* --------------------------- sources/memory.rs -------------------------- *)

\* MemoryStats::new
\* a collector whose previous page counters start from a reading
MemoryStatsNewPrimed(page_size, total_memory) ==
    [page_size |-> page_size, total_memory |-> total_memory,
     prev_pageins |-> 120, prev_pageouts |-> 120, prev_faults |-> 120]

\* MemoryStats::new
MemoryStatsNew(page_size, total_memory) ==
    [page_size |-> page_size, total_memory |-> total_memory,
     prev_pageins |-> 0, prev_pageouts |-> 0, prev_faults |-> 0]

\* get_vm_stats: the defaults when host_statistics64 fails
GetVmStats(read) == IF read.result # 0 THEN VmDefault ELSE read.stats

\* a delta that floors at zero where the counter went back
PageDeltaFloored(cur, prev) == IF cur >= prev THEN cur - prev ELSE 0

\* a delta by wrapping subtraction alone
PageDeltaWrapping(cur, prev) ==
    IF cur >= prev THEN cur - prev ELSE ((cur - prev) + U64_MAX) + 1

\* the per-interval value of a cumulative page counter
PageDelta(cur, prev) == IF cur >= prev THEN cur - prev ELSE cur

\* active + wired + compressed + inactive - speculative in u64: the
\* subtraction overflows when speculative is the larger
UsedBytes(active, wired, compressed, inactive, speculative) ==
    LET sum == active + wired + compressed + inactive
    IN  IF sum >= speculative
        THEN [overflow |-> FALSE, value |-> sum - speculative]
        ELSE [overflow |-> TRUE, value |-> ((sum - speculative) + U64_MAX) + 1]

\* MemoryStats::get_metrics: [panic, metrics, self]
MemoryGetMetrics(self, read) ==
    LET stats == GetVmStats(read)
        free == stats.free_count * self.page_size
        active == stats.active_count * self.page_size
        inactive == stats.inactive_count * self.page_size
        wired == stats.wire_count * self.page_size
        compressed == stats.compressor_page_count * self.page_size
        speculative == stats.speculative_count * self.page_size
        used == UsedBytes(active, wired, compressed, inactive, speculative)
    IN  [panic |-> used.overflow /\ overflow_checks,
         metrics |->
            [total_bytes |-> self.total_memory, used_bytes |-> used.value,
             free_bytes |-> free, active_bytes |-> active, wired_bytes |-> wired,
             compressed_bytes |-> compressed,
             page_ins |-> PageDelta(stats.pageins, self.prev_pageins),
             page_outs |-> PageDelta(stats.pageouts, self.prev_pageouts),
             page_faults |-> PageDelta(stats.faults, self.prev_faults)],
         self |->
            [self EXCEPT !.prev_pageins = stats.pageins,
                         !.prev_pageouts = stats.pageouts,
                         !.prev_faults = stats.faults]]

(* ---------------------------- sources/disk.rs --------------------------- *)

\* u64::saturating_sub
SaturatingSub(a, b) == IF a >= b THEN a - b ELSE 0

\* a cast that takes NaN to the largest value
RatePerSecNanSaturates(delta, interval_ticks) ==
    IF interval_ticks = 0 THEN U64_MAX ELSE FloorMulDiv(delta, TicksPerSec, interval_ticks)

\* (delta as f64 / interval_secs) as u64, the interval given in ticks: the
\* quotient truncated and saturated; x / 0.0 is infinite and casts to
\* u64::MAX, 0 / 0.0 is NaN and casts to 0
RatePerSec(delta, interval_ticks) ==
    IF interval_ticks = 0
    THEN IF delta = 0 THEN 0 ELSE U64_MAX
    ELSE LET q == delta \div interval_ticks
             rest == ((delta % interval_ticks) * TicksPerSec) \div interval_ticks
         IN  IF q > U64_MAX \div TicksPerSec THEN U64_MAX
             ELSE IF rest > U64_MAX - q * TicksPerSec THEN U64_MAX
             ELSE q * TicksPerSec + rest

\* one DiskMetrics entry
DiskMetrics(name, current_snap, prev_snap, interval_ticks) ==
    [name |-> name,
     read_bytes_per_sec |->
        RatePerSec(SaturatingSub(current_snap.read_bytes, prev_snap.read_bytes), interval_ticks),
     write_bytes_per_sec |->
        RatePerSec(SaturatingSub(current_snap.write_bytes, prev_snap.write_bytes), interval_ticks),
     read_ops_per_sec |->
        RatePerSec(SaturatingSub(current_snap.read_ops, prev_snap.read_ops), interval_ticks),
     write_ops_per_sec |->
        RatePerSec(SaturatingSub(current_snap.write_ops, prev_snap.write_ops), interval_ticks)]

\* the current sample merged into the stored one
NextPrevSnapshotsMerged(prev_snapshots, current) ==
    [n \in DOMAIN prev_snapshots \cup DOMAIN current |->
        IF n \in DOMAIN current THEN current[n] ELSE prev_snapshots[n]]

\* self.prev_snapshots = current
NextPrevSnapshots(prev_snapshots, current) == current

\* DiskStats::get_metrics over the map `current`, iterated in `order`: [metrics, self]
DiskGetMetrics(self, current, interval_ticks, order) ==
    LET listed == SelectSeq(order, LAMBDA n : n \in DOMAIN self.prev_snapshots)
    IN  [metrics |->
            [i \in 1..Len(listed) |->
                DiskMetrics(listed[i], current[listed[i]],
                            self.prev_snapshots[listed[i]], interval_ticks)],
         self |-> [prev_snapshots |-> NextPrevSnapshots(self.prev_snapshots, current)]]

(* -------------------------- sources/ioreport.rs ------------------------- *)

\* a constructor that goes on without a subscription
IOReportNewLenient(os, h) ==
    IF ~os.dlopen \/ os.channels = 0
    THEN [ok |-> FALSE, handles |-> h]
    ELSE [ok |-> TRUE, handles |-> Acquire(Acquire(h, "channels"), "subscription")]

\* IOReport::new with the handles it leaves held: [ok, handles].  The first
\* channel dictionary is kept, a further one is merged into it and released;
\* the kept one is released when no subscription can be made
IOReportNew(os, h) ==
    IF ~os.dlopen \/ os.channels = 0
    THEN [ok |-> FALSE, handles |-> h]
    ELSE LET kept == Acquire(h, "channels")
             merged == IF os.channels > 1 THEN Release(Acquire(kept, "channels"), "channels")
                       ELSE kept
         IN  IF ~os.subscription
             THEN [ok |-> FALSE, handles |-> Release(merged, "channels")]
             ELSE [ok |-> TRUE, handles |-> Acquire(merged, "subscription")]

\* IOReport::get_sample: [result, self]
GetSample(self, read) ==
    IF read.outcome = "sample_null"
    THEN [result |-> <<>>, self |-> self]
    ELSE [result |-> IF self.prev_sample /\ read.outcome = "ok" THEN read.samples ELSE <<>>,
          self |-> [self EXCEPT !.prev_sample = TRUE]]

\* the handles after IOReport::get_sample: the sample and the delta
\* dictionaries it creates and releases
GetSampleHandles(self, read, h) ==
    IF read.outcome = "sample_null"
    THEN h
    ELSE LET sampled == Acquire(h, "sample")
             parsed == IF self.prev_sample /\ read.outcome = "ok"
                       THEN Release(Acquire(sampled, "delta"), "delta")
                       ELSE sampled
         IN  IF self.prev_sample THEN Release(parsed, "sample") ELSE parsed

\* impl Drop for IOReport: the channels and the previous sample are released
DropIOReport(self, h) ==
    LET channels_released == Release(h, "channels")
    IN  IF self.prev_sample THEN Release(channels_released, "sample") ELSE channels_released

(* ----------------------------- sources/smc.rs --------------------------- *)

\* Smc::new with the handles it leaves held: [ok, handles]
SmcNew(os, h) ==
    IF os = "ok" THEN [ok |-> TRUE, handles |-> Acquire(h, "connection")]
    ELSE [ok |-> FALSE, handles |-> h]

\* impl Drop for Smc: IOServiceClose(self.connection)
DropSmc(h) == Release(h, "connection")

(* ------------------------------ metrics.rs ------------------------------ *)

\* the raw value, unclamped
ClampNonNegMissing(v) == v

\* sample.value.max(0)
ClampNonNeg(v) == Max(v, 0)

IsEfficiency(channel) == Contains(channel, PAT_ECPU) \/ Contains(channel, PAT_E_CLUSTER)
IsPerformance(channel) == Contains(channel, PAT_PCPU) \/ Contains(channel, PAT_P_CLUSTER)
\* a subgroup test that lets every subgroup through
IsPerfStatesAlways(subgroup) == TRUE

\* sample.subgroup.contains("Performance States")
IsPerfStates(subgroup) == Contains(subgroup, PAT_PERF_STATES)
\* the idle pattern in the wrong case
IsIdleLowerCase(channel) == Contains(channel, <<"i", "d", "l", "e">>)

IsIdle(channel) == Contains(channel, PAT_IDLE)

\* SystemMetrics::default(), GpuMetrics::default(), AneMetrics::default()
SystemDefault ==
    [total_power_watts |-> Zero, cpu_power_watts |-> Zero, gpu_power_watts |-> Zero,
     ane_power_watts |-> Zero, dram_power_watts |-> Zero]
GpuDefault == [freq_mhz |-> 0, freq_max_mhz |-> 0, active_pct |-> Zero, power_watts |-> Zero]
AneDefault == [power_watts |-> Zero]

\* the locals of collect_ioreport_metrics before the loop over the samples
AccInit ==
    [ecpu_residency |-> 0, ecpu_total |-> 0, pcpu_residency |-> 0, pcpu_total |-> 0,
     system |-> SystemDefault, gpu |-> GpuDefault, ane |-> AneDefault]

\* an accumulator that keeps the last contribution only
AddWattsOverwrites(domain_watts, power_w) == power_w

\* system.<domain>_power_watts += power_w
AddWatts(domain_watts, power_w) == FracAdd(domain_watts, power_w)

\* one iteration of `for sample in &samples`
AccStep(acc, sample) ==
    IF sample.group = "CPU Stats"
    THEN IF IsEfficiency(sample.channel)
         THEN IF IsPerfStates(sample.subgroup)
              THEN [acc EXCEPT
                      !.ecpu_total = @ + ClampNonNeg(sample.value),
                      !.ecpu_residency =
                          IF ~IsIdle(sample.channel) THEN @ + ClampNonNeg(sample.value) ELSE @]
              ELSE acc
         ELSE IF IsPerformance(sample.channel)
         THEN IF IsPerfStates(sample.subgroup)
              THEN [acc EXCEPT
                      !.pcpu_total = @ + ClampNonNeg(sample.value),
                      !.pcpu_residency =
                          IF ~IsIdle(sample.channel) THEN @ + ClampNonNeg(sample.value) ELSE @]
              ELSE acc
         ELSE acc
    ELSE IF sample.group = "Energy Model"
    THEN LET power_mw == FracDiv(Frac(sample.value, 1), 1000)
             power_w == FracDiv(power_mw, 1000)
         IN  IF Contains(sample.channel, PAT_CPU)
             THEN [acc EXCEPT !.system.cpu_power_watts = AddWatts(@, power_w)]
             ELSE IF Contains(sample.channel, PAT_GPU)
             THEN [acc EXCEPT !.system.gpu_power_watts = AddWatts(@, power_w),
                              !.gpu.power_watts = power_w]
             ELSE IF Contains(sample.channel, PAT_ANE)
             THEN [acc EXCEPT !.system.ane_power_watts = AddWatts(@, power_w),
                              !.ane.power_watts = power_w]
             ELSE IF Contains(sample.channel, PAT_DRAM)
             THEN [acc EXCEPT !.system.dram_power_watts = AddWatts(@, power_w)]
             ELSE acc
    ELSE acc

RECURSIVE AccFold(_, _)
AccFold(acc, samples) ==
    IF samples = <<>> THEN acc ELSE AccFold(AccStep(acc, Head(samples)), Tail(samples))

\* (residency as f64 / total as f64 * 100.0).min(100.0)
ActivePct(residency, total) == FracMin(Frac(residency * 100, total), Hundred)

\* the entry pushed for a cluster with total > 0
LiveCluster(name, residency, total) ==
    [name |-> name, freq_mhz |-> 0, freq_max_mhz |-> 0,
     active_pct |-> ActivePct(residency, total),
     idle_pct |-> FracSub(Hundred, ActivePct(residency, total)),
     power_watts |-> Zero]

\* the entry pushed by the fallback
PlaceholderCluster(name) ==
    [name |-> name, freq_mhz |-> 0, freq_max_mhz |-> 0,
     active_pct |-> Zero, idle_pct |-> Hundred, power_watts |-> Zero]

\* a total that leaves the DRAM domain out
TotalPowerNoDram(system) ==
    FracAdd(FracAdd(system.cpu_power_watts, system.gpu_power_watts), system.ane_power_watts)

\* system.cpu_power_watts + gpu_power_watts + ane_power_watts + dram_power_watts
TotalPower(system) ==
    FracAdd(FracAdd(FracAdd(system.cpu_power_watts, system.gpu_power_watts),
                    system.ane_power_watts),
            system.dram_power_watts)

\* a fallback that tops the list up whenever a tier has no live entry
NeedsFallbackPartial(cpu_clusters) == Len(cpu_clusters) < 2

\* cpu_clusters.is_empty()
NeedsFallback(cpu_clusters) == cpu_clusters = <<>>

\* a tier taken to exist whatever its core count
HasTierAlways(core_count) == TRUE

\* self.sysctl_info.cpu_cores_eff > 0, cpu_cores_perf > 0
HasTier(core_count) == core_count > 0

\* collect_ioreport_metrics: [cpu_clusters, gpu, ane, system, ioreport, samples]
CollectIoreportMetrics(io_self, sysctl, read) ==
    LET got == IF io_self.some THEN GetSample(io_self, read)
               ELSE [result |-> <<>>, self |-> io_self]
        acc == AccFold(AccInit, got.result)
        live ==
            IF io_self.some
            THEN (IF acc.ecpu_total > 0
                  THEN <<LiveCluster("E-Cluster", acc.ecpu_residency, acc.ecpu_total)>>
                  ELSE <<>>)
                 \o (IF acc.pcpu_total > 0
                     THEN <<LiveCluster("P-Cluster", acc.pcpu_residency, acc.pcpu_total)>>
                     ELSE <<>>)
            ELSE <<>>
        fallback ==
            (IF HasTier(sysctl.cpu_cores_eff) THEN <<PlaceholderCluster("E-Cluster")>> ELSE <<>>)
            \o (IF HasTier(sysctl.cpu_cores_perf) THEN <<PlaceholderCluster("P-Cluster")>> ELSE <<>>)
    IN  [cpu_clusters |-> IF NeedsFallback(live) THEN live \o fallback ELSE live,
         gpu |-> acc.gpu,
         ane |-> acc.ane,
         system |->
            IF io_self.some
            THEN [acc.system EXCEPT !.total_power_watts = TotalPower(acc.system)]
            ELSE acc.system,
         ioreport |-> got.self,
         samples |-> got.result]

\* configured sampling intervals (--interval), in milliseconds
IntervalsMs == {DefaultIntervalMs, 2 * DefaultIntervalMs}

\* now.duration_since(self.last_sample): zero when `now` is the earlier
ActualInterval(now, last) == Max(now - last, 0)

\* last_sample left as it was
NextLastSampleKept(now, last) == last

\* self.last_sample = now
NextLastSample(now, last) == now

\* the configured interval in place of the measured one
IntervalSecsConfigured(actual_interval) == interval

\* let interval_secs = actual_interval.as_secs_f64(), in ticks
IntervalSecs(actual_interval) == actual_interval

\* actual_interval.as_millis() as u64
AsMillis(ticks) == ticks \div TicksPerMs

\* a history once the snapshot is dropped: the newest entry
Newest(seen) == IF Len(seen) < 2 THEN seen ELSE Tail(seen)

\* the reads a failed one is told from: get_vm_stats gives the defaults,
\* get_disk_snapshots an empty map
VmReadFailed(stats) == stats = VmDefault
DiskReadFailed(snapshots) == DOMAIN snapshots = {}

\* the last reads that succeeded, as a new read is about to be taken
NextGood(g, vm_hist, disk_hist) ==
    [vm |-> IF vm_hist # <<>> /\ ~VmReadFailed(vm_hist[Len(vm_hist)])
            THEN <<vm_hist[Len(vm_hist)]>> ELSE g.vm,
     disk |-> IF disk_hist # <<>> /\ ~DiskReadFailed(disk_hist[Len(disk_hist)])
              THEN disk_hist[Len(disk_hist)] ELSE g.disk]

\* the last reads that succeeded, once the snapshot is dropped: where the
\* newest read succeeded it is the newest of the history itself
KeptGood(g, vm_hist, disk_hist) ==
    [vm |-> IF vm_hist # <<>> /\ ~VmReadFailed(vm_hist[Len(vm_hist)]) THEN <<>> ELSE g.vm,
     disk |-> IF disk_hist # <<>> /\ ~DiskReadFailed(disk_hist[Len(disk_hist)])
              THEN <<>> ELSE g.disk]

(* ------------------------------- actions -------------------------------- *)

\* the command line: --count, --json, --append (--interval is handed to New)
Args(count, json, append) == [count |-> count, json |-> json, append |-> append]

\* no option given: count 0, the table display
ArgsDefault == Args(0, FALSE, FALSE)

\* display::print_metrics: the first call prints a notice and returns; the
\* number of snapshots printed
PrintMetrics(is_first) == IF is_first THEN 0 ELSE 1

\* main: the output of one iteration; the number of snapshots printed
Printed(a, is_first) ==
    IF a.json THEN (IF ~is_first THEN 1 ELSE 0)
    ELSE IF a.append THEN (IF ~is_first THEN 1 ELSE 0)
    ELSE PrintMetrics(is_first)

\* a test that lets one sample more through
ReachedCountLate(a, count_so_far) == a.count > 0 /\ count_so_far > a.count

\* args.count > 0 && sample_count >= args.count
ReachedCount(a, count_so_far) == a.count > 0 /\ count_so_far >= a.count

\* the collector goes out of scope: its ioreport field is dropped before its
\* smc field
DropCollector(io, sm, h) ==
    LET after_ioreport == IF io.some THEN DropIOReport(io, h) ELSE h
    IN  IF sm.some THEN DropSmc(after_ioreport) ELSE after_ioreport

\* before main calls MetricsCollector::new, in a build of the given profiles
\* and with one of the given command lines
InitArgs(profiles, command_lines) ==
    /\ args \in command_lines
    /\ running = TRUE
    /\ first = TRUE
    /\ emitted = 0
    /\ cleared_at = <<>>
    /\ pc = "start"
    /\ overflow_checks \in profiles
    /\ clock = 0
    /\ sample_count = 0
    /\ sysctl_info = <<>>
    /\ ioreport = <<>>
    /\ memory_stats = <<>>
    /\ disk_stats = <<>>
    /\ last_sample = 0
    /\ interval = 0
    /\ metrics = <<>>
    /\ measured = <<>>
    /\ created_at = 0
    /\ vm_seen = <<>>
    /\ disk_seen = <<>>
    /\ io_seen = <<>>
    /\ smc = <<>>
    /\ boot = <<>>
    /\ good = [vm |-> <<>>, disk |-> <<>>]
    /\ handles = NoHandles

\* a run with no option given
InitBuild(profiles) == InitArgs(profiles, {ArgsDefault})

Init == InitBuild(BOOLEAN)

\* a release build; the specifications whose VM statistics never overflow use it
InitRelease == InitBuild({FALSE})

\* MetricsCollector::new: `sysctl_os`, `io_os` and `smc_os` are what the OS
\* answers to SysctlInfo::new, IOReport::new and Smc::new.  An Err of
\* SysctlInfo::new is returned (`?`) and main exits; an Err of the other two
\* leaves None (`.ok()`)
New(sysctl_os, io_os, smc_os, interval_ms) ==
    /\ pc = "start"
    /\ LET sys == SysctlInfoNew(sysctl_os)
           io == IOReportNew(io_os, handles)
           sm == SmcNew(smc_os, io.handles)
       IN  IF ~sys.ok
           THEN /\ pc' = "failed"
                /\ boot' = [sysctl |-> sysctl_os]
                /\ UNCHANGED <<sysctl_info, ioreport, smc, memory_stats, disk_stats,
                               last_sample, created_at, interval, handles>>
           ELSE /\ pc' = "loop"
                /\ boot' = [sysctl |-> sysctl_os, ioreport |-> io_os, smc |-> smc_os]
                /\ sysctl_info' = sys.value
                /\ ioreport' = [some |-> io.ok, prev_sample |-> FALSE]
                /\ smc' = [some |-> sm.ok]
                /\ handles' = sm.handles
                /\ memory_stats' = MemoryStatsNew(sys.value.page_size, sys.value.physical_memory)
                /\ disk_stats' = [prev_snapshots |-> <<>>]
                /\ last_sample' = clock
                /\ created_at' = clock
                /\ interval' = interval_ms * TicksPerMs
    /\ UNCHANGED <<overflow_checks, args, running, first, emitted, cleared_at, clock, sample_count, metrics, measured, vm_seen,
                   disk_seen, io_seen, good>>

\* main: `while running.load(..)` finds the flag set and enters the body; the
\* number of iterations is capped at MaxTicks
WhileRunning ==
    /\ pc = "loop"
    /\ running
    /\ sample_count < MaxTicks
    /\ pc' = "collect"
    /\ UNCHANGED <<overflow_checks, args, running, first, emitted, cleared_at, clock,
                   sample_count, sysctl_info, ioreport, memory_stats, disk_stats,
                   last_sample, interval, metrics, measured, created_at, vm_seen, disk_seen,
                   io_seen, smc, boot, good, handles>>

\* MetricsCollector::collect, called from the loop of main `dt` ticks after the
\* clock was last read; the OS answers vm_read, disk_read (iterated in `order`)
\* and io_read
Collect(dt, vm_read, disk_read, order, io_read) ==
    /\ pc = "collect"
    /\ LET now == clock + dt
           actual_interval == ActualInterval(now, last_sample)
           mem == MemoryGetMetrics(memory_stats, vm_read)
           disk == DiskGetMetrics(disk_stats, disk_read, IntervalSecs(actual_interval), order)
           io == CollectIoreportMetrics(ioreport, sysctl_info, io_read)
       IN  /\ clock' = now
           /\ last_sample' = NextLastSample(now, last_sample)
           /\ measured' = Append(measured, [from |-> last_sample, to |-> now])
           /\ IF mem.panic
              THEN /\ pc' = "panicked"
                   /\ UNCHANGED <<memory_stats, disk_stats, ioreport, metrics, vm_seen,
                                  disk_seen, io_seen, good, handles>>
              ELSE /\ pc' = "output"
                   /\ memory_stats' = mem.self
                   /\ disk_stats' = disk.self
                   /\ ioreport' = io.ioreport
                   /\ metrics' =
                        << [interval_ms |-> AsMillis(actual_interval),
                            memory |-> mem.metrics,
                            cpu_clusters |-> io.cpu_clusters,
                            gpu |-> io.gpu,
                            ane |-> io.ane,
                            disks |-> disk.metrics,
                            system |-> io.system] >>
                   /\ vm_seen' = Append(vm_seen, GetVmStats(vm_read))
                   /\ disk_seen' = Append(disk_seen, disk_read)
                   /\ io_seen' = io.samples
                   /\ good' = NextGood(good, vm_seen, disk_seen)
                   /\ handles' = IF ioreport.some
                                 THEN GetSampleHandles(ioreport, io_read, handles)
                                 ELSE handles
    /\ UNCHANGED <<overflow_checks, args, running, first, emitted, cleared_at, sample_count, sysctl_info, interval, created_at, smc, boot>>

\* main: the snapshot is printed (or, the first one, not) and dropped, `first`
\* is cleared and the sample is counted; with --count reached main breaks out
\* of the loop and returns, which drops the collector, and sleeps otherwise
Output ==
    /\ pc = "output"
    /\ emitted' = emitted + Printed(args, first)
    /\ first' = FALSE
    /\ sample_count' = sample_count + 1
    /\ IF ReachedCount(args, sample_count + 1)
       THEN /\ pc' = "exit"
            /\ handles' = DropCollector(ioreport, smc, handles)
       ELSE /\ pc' = "sleep"
            /\ handles' = handles
    /\ metrics' = <<>>
    /\ io_seen' = <<>>
    /\ vm_seen' = Newest(vm_seen)
    /\ disk_seen' = Newest(disk_seen)
    /\ good' = KeptGood(good, vm_seen, disk_seen)
    /\ UNCHANGED <<overflow_checks, args, running, cleared_at, clock, sysctl_info, ioreport,
                   memory_stats, disk_stats, last_sample, interval, measured, created_at,
                   smc, boot>>

\* main: std::thread::sleep(interval), then the next iteration
Sleep ==
    /\ pc = "sleep"
    /\ pc' = "loop"
    /\ UNCHANGED <<overflow_checks, args, running, first, emitted, cleared_at, clock, sample_count, sysctl_info, ioreport,
                   memory_stats, disk_stats, last_sample, interval, metrics, measured,
                   created_at, vm_seen, disk_seen, io_seen, smc, boot, good, handles>>

\* main: `while running.load(..)` finds the flag cleared, main returns and the
\* collector is dropped
Exit ==
    /\ pc = "loop"
    /\ ~running
    /\ pc' = "exit"
    /\ handles' = DropCollector(ioreport, smc, handles)
    /\ UNCHANGED <<overflow_checks, args, running, first, emitted, cleared_at, clock,
                   sample_count, sysctl_info, ioreport, smc, memory_stats, disk_stats,
                   last_sample, interval, metrics, measured, created_at, vm_seen, disk_seen,
                   io_seen, boot, good>>

\* the handler installed by ctrlc_handler runs on its own thread, at any point
\* of main: running.store(false)
CtrlC ==
    /\ pc \notin {"exit", "failed", "panicked"}
    /\ running
    /\ running' = FALSE
    /\ cleared_at' = <<Len(measured)>>
    /\ UNCHANGED <<overflow_checks, args, first, emitted, pc, clock, sample_count,
                   sysctl_info, ioreport, smc, memory_stats, disk_stats, last_sample,
                   interval, metrics, measured, created_at, vm_seen, disk_seen, io_seen,
                   boot, good, handles>>

(* ---------------------------- specifications ---------------------------- *)

\* a usual machine: every read of SysctlInfo::new and IOReport::new succeeds
NewUsual == New(Succeeding(SysctlUsual), IoOsOk, "ok", DefaultIntervalMs)

\* a usual machine, the sampling interval as the command line gives it
NewInterval == \E ms \in IntervalsMs : New(Succeeding(SysctlUsual), IoOsOk, "ok", ms)

\* a machine with or without each CPU tier, with or without IOReport
NewTopology ==
    \E e \in {0, 4}, p \in {0, 4}, io_ok \in BOOLEAN :
        New(Succeeding([SysctlUsual EXCEPT !.cpu_cores = e + p, !.cpu_cores_eff = e,
                                           !.cpu_cores_perf = p]),
            IF io_ok THEN IoOsOk ELSE IoOsNoFramework, "ok", DefaultIntervalMs)

\* any machine
NewAny ==
    \E sys \in SysctlReads, io_os \in IoOsReads, smc_os \in SmcOsReads :
        New(Succeeding(sys), io_os, smc_os, DefaultIntervalMs)

\* a usual machine on which any of the reads and initializations may fail
NewLife ==
    \E sysctl_os \in SysctlOsReads, io_os \in IoOsReads, smc_os \in {"ok", "open_failed"} :
        New(sysctl_os, io_os, smc_os, DefaultIntervalMs)

\* collects in which the VM statistics vary
CollectMem ==
    \E vm \in VmReads : Collect(OneSec, vm, DiskQuiet, <<"disk0">>, IoQuiet)

\* collects in which the disk counters and the elapsed time vary
CollectDisk ==
    \E dt \in {0, OneSec, 2 * OneSec}, d \in DiskReads :
        \E o \in Orders(DOMAIN d) : Collect(dt, VmQuiet, d, o, IoQuiet)

\* collects in which the elapsed time varies
CollectTime ==
    \E dt \in Elapsed : Collect(dt, VmQuiet, DiskQuiet, <<"disk0">>, IoQuiet)

\* collects in which the channel readings vary
CollectAgg ==
    \E io \in IoReads : Collect(OneSec, VmQuiet, DiskQuiet, <<"disk0">>, io)

\* collects in which the VM read and the IOReport sample may fail
CollectLife ==
    \E vm \in {VmQuiet, [result |-> 5, stats |-> VmDefault]}, io \in IoReadsLife :
        Collect(OneSec, vm, DiskQuiet, <<"disk0">>, io)

\* uneventful collects, one second apart
CollectQuiet == Collect(OneSec, VmQuiet, DiskQuiet, <<"disk0">>, IoQuiet)

NextMem == NewUsual \/ WhileRunning \/ CollectMem \/ Output \/ Sleep
SpecMem == Init /\ [][NextMem]_vars

NextDisk == NewUsual \/ WhileRunning \/ CollectDisk \/ Output \/ Sleep
SpecDisk == InitRelease /\ [][NextDisk]_vars

NextTime == NewInterval \/ WhileRunning \/ CollectTime \/ Output \/ Sleep
SpecTime == InitRelease /\ [][NextTime]_vars

NextAgg == NewTopology \/ WhileRunning \/ CollectAgg \/ Output \/ Sleep
SpecAgg == InitRelease /\ [][NextAgg]_vars

\* the life of a collector: construction, a few collects, teardown
NextLife == NewLife \/ WhileRunning \/ CollectLife \/ Output \/ Sleep \/ CtrlC \/ Exit
SpecLife == InitRelease /\ [][NextLife]_vars

\* the command lines: each output mode with each count up to the cap
CommandLines ==
    { Args(count, json, append) : count \in 0..MaxTicks, json \in BOOLEAN, append \in BOOLEAN }

InitMain == InitArgs({FALSE}, CommandLines)

\* the steps of main; the thread runs whenever it can
MainStep == NewUsual \/ WhileRunning \/ CollectQuiet \/ Output \/ Sleep \/ Exit

\* the driver loop of main under every command line, Ctrl-C at any point
NextMain == MainStep \/ CtrlC
SpecMain == InitMain /\ [][NextMain]_vars /\ WF_vars(MainStep)

Next ==
    \/ NewInterval \/ NewTopology \/ NewAny \/ NewLife
    \/ CollectMem \/ CollectDisk \/ CollectTime \/ CollectAgg \/ CollectLife
    \/ CollectQuiet \/ WhileRunning \/ Output \/ Sleep \/ CtrlC \/ Exit
Spec == Init /\ [][Next]_vars

(* -------------------------------- claims -------------------------------- *)

\* a snapshot is in hand: collect() has returned and main has not dropped it yet
Returned == metrics # <<>>

\* the clock as the last collect read it, and as the call before it (collect or
\* new) read it
LastNow == measured[Len(measured)].to
PrevNow == IF Len(measured) = 1 THEN created_at ELSE measured[Len(measured) - 1].to
MeasuredElapsed == LastNow - PrevNow

\* current - previous, or the current value after a counter reset
ResetAwareDelta(cur, prev) == IF cur >= prev THEN cur - prev ELSE cur

\* C1: with a preceding call, each of page_ins, page_outs, page_faults is
\* current - previous when current >= previous and current itself otherwise,
\* previous being the value the preceding call read.
C1_PageDeltas ==
    (Returned /\ Len(vm_seen) = 2) =>
        /\ metrics[1].memory.page_ins = ResetAwareDelta(vm_seen[2].pageins, vm_seen[1].pageins)
        /\ metrics[1].memory.page_outs = ResetAwareDelta(vm_seen[2].pageouts, vm_seen[1].pageouts)
        /\ metrics[1].memory.page_faults = ResetAwareDelta(vm_seen[2].faults, vm_seen[1].faults)

\* faults going 50,000 -> 120 reports page_faults = 120
C1_Witness ==
    /\ Returned /\ Len(vm_seen) = 2
    /\ vm_seen[1].faults = 50000 /\ vm_seen[2].faults = 120
    /\ metrics[1].memory.page_faults = 120

\* a quotient truncated to an integer, as the cast to u64 leaves it: infinite
\* (x / 0) saturates, NaN (0 / 0) is 0
TruncatedQuotient(delta, elapsed) ==
    IF elapsed = 0 THEN (IF delta = 0 THEN 0 ELSE U64_MAX)
    ELSE FloorMulDiv(delta, TicksPerSec, elapsed)

\* the name of every listed disk
ListedDisks == { metrics[1].disks[i].name : i \in DOMAIN metrics[1].disks }

\* C2: for a device present in two consecutive samples, the delta fed into each
\* of the four rates is current - previous when current >= previous and the
\* current raw value when the counter went back.  Over an elapsed time of one
\* second the rate is that delta.
C2_DiskResetDelta ==
    (Returned /\ Len(disk_seen) = 2 /\ MeasuredElapsed = OneSec) =>
        \A i \in DOMAIN metrics[1].disks :
            LET e == metrics[1].disks[i]
                cur == disk_seen[2][e.name]
                prev == disk_seen[1][e.name]
            IN  /\ e.read_bytes_per_sec = ResetAwareDelta(cur.read_bytes, prev.read_bytes)
                /\ e.write_bytes_per_sec = ResetAwareDelta(cur.write_bytes, prev.write_bytes)
                /\ e.read_ops_per_sec = ResetAwareDelta(cur.read_ops, prev.read_ops)
                /\ e.write_ops_per_sec = ResetAwareDelta(cur.write_ops, prev.write_ops)

\* C3: interval_ms is the time between the clock reading of this collect and
\* that of the call before it (new for the first), whole milliseconds of it;
\* last_sample is the clock as collect read it; the intervals the collects
\* measured are non-negative and each starts where the one before ended, the
\* first at construction.
C3_IntervalMeasured ==
    /\ Returned => metrics[1].interval_ms = MeasuredElapsed \div TicksPerMs
    /\ pc # "start" => last_sample = clock
    /\ \A k \in DOMAIN measured :
          /\ measured[k].from <= measured[k].to
          /\ measured[k].from = (IF k = 1 THEN created_at ELSE measured[k - 1].to)

\* a second collect a millisecond and a half after the first, one second configured
C3_Witness ==
    /\ Returned /\ Len(measured) = 2
    /\ interval = DefaultIntervalMs * TicksPerMs
    /\ MeasuredElapsed = TicksPerMs + 1
    /\ metrics[1].interval_ms = 1

\* the delta get_metrics forms: current - previous, zero when the counter went back
FlooredDelta(cur, prev) == IF cur >= prev THEN cur - prev ELSE 0

\* C4: every rate of every listed disk is the delta of its counter over the
\* elapsed time this collect measured, whatever the configured interval.
C4_RateOverMeasured ==
    (Returned /\ Len(disk_seen) = 2) =>
        \A i \in DOMAIN metrics[1].disks :
            LET e == metrics[1].disks[i]
                cur == disk_seen[2][e.name]
                prev == disk_seen[1][e.name]
            IN  /\ e.read_bytes_per_sec =
                     TruncatedQuotient(FlooredDelta(cur.read_bytes, prev.read_bytes), MeasuredElapsed)
                /\ e.write_bytes_per_sec =
                     TruncatedQuotient(FlooredDelta(cur.write_bytes, prev.write_bytes), MeasuredElapsed)
                /\ e.read_ops_per_sec =
                     TruncatedQuotient(FlooredDelta(cur.read_ops, prev.read_ops), MeasuredElapsed)
                /\ e.write_ops_per_sec =
                     TruncatedQuotient(FlooredDelta(cur.write_ops, prev.write_ops), MeasuredElapsed)

\* disk0 read_bytes 1,000,000 -> 3,000,000 across a measured 2 seconds, one
\* second configured: read_bytes_per_sec = 1,000,000
C4_Witness ==
    /\ Returned /\ Len(disk_seen) = 2
    /\ interval = OneSec /\ MeasuredElapsed = 2 * OneSec
    /\ "disk0" \in DOMAIN disk_seen[1] /\ disk_seen[1]["disk0"].read_bytes = 1000000
    /\ "disk0" \in DOMAIN disk_seen[2] /\ disk_seen[2]["disk0"].read_bytes = 3000000
    /\ \E i \in DOMAIN metrics[1].disks :
          /\ metrics[1].disks[i].name = "disk0"
          /\ metrics[1].disks[i].read_bytes_per_sec = 1000000

\* C5: the listed devices are exactly those in the sample of this tick and in
\* the sample of the tick before, each once; none on the first tick.
C5_ListedInBoth ==
    Returned =>
        /\ ListedDisks = (IF Len(disk_seen) = 2
                          THEN DOMAIN disk_seen[1] \cap DOMAIN disk_seen[2]
                          ELSE {})
        /\ Len(metrics[1].disks) = Cardinality(ListedDisks)

\* on the third tick disk1 is first seen and disk0 was seen before: only disk0 is listed
C5_Witness ==
    /\ Returned /\ Len(disk_seen) = 2 /\ sample_count = 2
    /\ DOMAIN disk_seen[1] = {"disk0"}
    /\ DOMAIN disk_seen[2] = {"disk0", "disk1"}
    /\ ListedDisks = {"disk0"}

\* C6: total_power_watts is cpu + gpu + ane + dram of the same snapshot when the
\* IOReport source was initialized; all five power fields are 0 when it was not.
C6_TotalPower ==
    Returned =>
        LET sys == metrics[1].system
        IN  IF ioreport.some
            THEN FracEq(sys.total_power_watts,
                           FracAdd(FracAdd(sys.cpu_power_watts, sys.gpu_power_watts),
                                   FracAdd(sys.ane_power_watts, sys.dram_power_watts)))
            ELSE /\ FracEq(sys.total_power_watts, Zero)
                 /\ FracEq(sys.cpu_power_watts, Zero)
                 /\ FracEq(sys.gpu_power_watts, Zero)
                 /\ FracEq(sys.ane_power_watts, Zero)
                 /\ FracEq(sys.dram_power_watts, Zero)

\* a CPU and a DRAM channel of 70 each: 140 millionths of a watt in total
C6_Witness ==
    /\ Returned /\ ioreport.some /\ Len(io_seen) = 2
    /\ FracEq(metrics[1].system.cpu_power_watts, Frac(70, 1000000))
    /\ FracEq(metrics[1].system.dram_power_watts, Frac(70, 1000000))
    /\ FracEq(metrics[1].system.total_power_watts, Frac(140, 1000000))

\* C7: every cluster entry, live or placeholder, has 0 <= active_pct <= 100 and
\* idle_pct + active_pct = 100, negative raw values among the readings or not.
C7_PctRange ==
    Returned =>
        \A i \in DOMAIN metrics[1].cpu_clusters :
            LET c == metrics[1].cpu_clusters[i]
            IN  /\ FracLeq(Zero, c.active_pct)
                /\ FracLeq(c.active_pct, Hundred)
                /\ FracEq(FracAdd(c.idle_pct, c.active_pct), Hundred)

\* a negative reading on the idle channel of the efficiency cluster beside a
\* positive one on its active channel: a live entry, 100% active
C7_Witness ==
    /\ Returned
    /\ \E k \in DOMAIN io_seen : io_seen[k].value < 0 /\ io_seen[k].channel = CH_ECPU_IDLE
    /\ \E k \in DOMAIN io_seen : io_seen[k].value > 0 /\ io_seen[k].channel = CH_ECPU
    /\ Len(metrics[1].cpu_clusters) = 1
    /\ metrics[1].cpu_clusters[1].name = "E-Cluster"
    /\ FracEq(metrics[1].cpu_clusters[1].active_pct, Hundred)
    /\ FracEq(metrics[1].cpu_clusters[1].idle_pct, Zero)

\* a reading of the residency group that belongs to a tier: the efficiency
\* patterns are tried first
OfTier(r, tier) ==
    /\ r.group = "CPU Stats"
    /\ Contains(r.subgroup, PAT_PERF_STATES)
    /\ LET eff == Contains(r.channel, PAT_ECPU) \/ Contains(r.channel, PAT_E_CLUSTER)
           perf == Contains(r.channel, PAT_PCPU) \/ Contains(r.channel, PAT_P_CLUSTER)
       IN  IF tier = "E-Cluster" THEN eff ELSE ~eff /\ perf

\* the residency of a tier over the readings of the interval, negative values
\* counted as 0: all of its channels, or those whose name is not an idle one
RECURSIVE Residency(_, _, _)
Residency(samples, tier, active_only) ==
    IF samples = <<>> THEN 0
    ELSE LET r == Head(samples)
             counted == OfTier(r, tier) /\ (active_only => ~Contains(r.channel, PAT_IDLE))
         IN  (IF counted /\ r.value > 0 THEN r.value ELSE 0)
             + Residency(Tail(samples), tier, active_only)

TierTotal(tier) == Residency(io_seen, tier, FALSE)
TierActive(tier) == Residency(io_seen, tier, TRUE)

\* the tiers with a residency total above 0, efficiency first
LiveTiers ==
    (IF TierTotal("E-Cluster") > 0 THEN <<"E-Cluster">> ELSE <<>>)
    \o (IF TierTotal("P-Cluster") > 0 THEN <<"P-Cluster">> ELSE <<>>)

\* the tiers of the machine, efficiency first
MachineTiers ==
    (IF sysctl_info.cpu_cores_eff > 0 THEN <<"E-Cluster">> ELSE <<>>)
    \o (IF sysctl_info.cpu_cores_perf > 0 THEN <<"P-Cluster">> ELSE <<>>)

ClusterNames == [i \in DOMAIN metrics[1].cpu_clusters |-> metrics[1].cpu_clusters[i].name]

\* C8: the clusters with a residency total above 0 are listed, efficiency before
\* performance, each with active_pct = min(100, active / total * 100).
C8_ActivePct ==
    (Returned /\ LiveTiers # <<>>) =>
        /\ ClusterNames = LiveTiers
        /\ \A i \in DOMAIN metrics[1].cpu_clusters :
              LET c == metrics[1].cpu_clusters[i]
                  expected == Frac(TierActive(c.name) * 100, TierTotal(c.name))
              IN  FracEq(c.active_pct, IF FracLeq(expected, Hundred) THEN expected ELSE Hundred)

\* E total 100 / active 30 and P total 200 / active 150 give [{E,30,70},{P,75,25}]
C8_Witness ==
    /\ Returned /\ io_seen = ScenarioA
    /\ ClusterNames = <<"E-Cluster", "P-Cluster">>
    /\ FracEq(metrics[1].cpu_clusters[1].active_pct, Frac(30, 1))
    /\ FracEq(metrics[1].cpu_clusters[1].idle_pct, Frac(70, 1))
    /\ FracEq(metrics[1].cpu_clusters[2].active_pct, Frac(75, 1))
    /\ FracEq(metrics[1].cpu_clusters[2].idle_pct, Frac(25, 1))

\* C9: when no cluster has a residency total above 0 (no source, no readings,
\* or totals of 0), the list is one placeholder per tier of the machine with a
\* non-zero core count, efficiency first, each 0% active, 100% idle, 0 watts;
\* without the source total_power_watts is 0 as well.
C9_Placeholders ==
    (Returned /\ LiveTiers = <<>>) =>
        /\ ClusterNames = MachineTiers
        /\ \A i \in DOMAIN metrics[1].cpu_clusters :
              /\ FracEq(metrics[1].cpu_clusters[i].active_pct, Zero)
              /\ FracEq(metrics[1].cpu_clusters[i].idle_pct, Hundred)
              /\ FracEq(metrics[1].cpu_clusters[i].power_watts, Zero)
        /\ ~ioreport.some => FracEq(metrics[1].system.total_power_watts, Zero)

\* no IOReport source on a machine with performance cores only
C9_Witness ==
    /\ Returned /\ ~ioreport.some
    /\ sysctl_info.cpu_cores_eff = 0 /\ sysctl_info.cpu_cores_perf > 0
    /\ ClusterNames = <<"P-Cluster">>
    /\ FracEq(metrics[1].cpu_clusters[1].idle_pct, Hundred)
    /\ FracEq(metrics[1].system.total_power_watts, Zero)

\* C10: when exactly one of the two clusters has a residency total above 0, the
\* list holds that cluster alone: no entry, zero-valued or placeholder, for the
\* other.
C10_OmittedNotZeroed ==
    (Returned /\ Len(LiveTiers) = 1) =>
        /\ Len(metrics[1].cpu_clusters) = 1
        /\ metrics[1].cpu_clusters[1].name = LiveTiers[1]

\* readings for the efficiency cluster only, on a machine with both tiers
C10_Witness ==
    /\ Returned
    /\ TierTotal("E-Cluster") > 0 /\ TierTotal("P-Cluster") = 0
    /\ sysctl_info.cpu_cores_eff > 0 /\ sysctl_info.cpu_cores_perf > 0
    /\ ClusterNames = <<"E-Cluster">>

\* how many entries of the cluster list carry the name
EntriesNamed(name) ==
    Cardinality({ i \in DOMAIN metrics[1].cpu_clusters : metrics[1].cpu_clusters[i].name = name })

\* C11: in every snapshot the cluster list has one entry for each CPU tier whose
\* static core count is non-zero, with live residency data for it or without.
C11_TopologyShape ==
    Returned =>
        /\ sysctl_info.cpu_cores_eff > 0 => EntriesNamed("E-Cluster") = 1
        /\ sysctl_info.cpu_cores_perf > 0 => EntriesNamed("P-Cluster") = 1

\* the VM statistics the last collect read
LastVm == vm_seen[Len(vm_seen)]

\* active + wired + compressed + inactive - speculative in bytes, 0 where the
\* speculative pages are the more
FlooredUsed(stats, page_size) ==
    Max((stats.active_count + stats.wire_count + stats.compressor_page_count
         + stats.inactive_count - stats.speculative_count) * page_size, 0)

\* C12: for every VM sample used_bytes is active + wired + compressed + inactive
\* - speculative floored at 0; the subtraction neither wraps nor aborts.
C12_UsedFloored ==
    /\ pc # "panicked"
    /\ Returned => metrics[1].memory.used_bytes = FlooredUsed(LastVm, memory_stats.page_size)

\* C13: in every snapshot used_bytes <= total_bytes, whatever the VM statistics
\* and whatever physical-memory size the static reads gave, the 0 of a failed
\* read included.
C13_UsedWithinTotal ==
    Returned => metrics[1].memory.used_bytes <= metrics[1].memory.total_bytes

\* C14: once the collector is constructed every collect returns a snapshot,
\* whatever the sources answer: no panic or abort is reachable.
C14_CollectReturns ==
    /\ pc # "panicked"
    /\ pc = "output" => Returned

\* C15: a tick whose read failed degrades that tick alone.  On the tick after
\* a failed VM read the page counts are those against the counters read before
\* the failure; on the tick after an empty disk enumeration the devices listed
\* are those of this tick's sample that were in the sample before the failure.
C15_FailedTickOnly ==
    Returned =>
        /\ (/\ Len(vm_seen) = 2 /\ good.vm # <<>>
            /\ VmReadFailed(vm_seen[1]) /\ ~VmReadFailed(vm_seen[2])) =>
              /\ metrics[1].memory.page_ins
                   = ResetAwareDelta(vm_seen[2].pageins, good.vm[1].pageins)
              /\ metrics[1].memory.page_outs
                   = ResetAwareDelta(vm_seen[2].pageouts, good.vm[1].pageouts)
              /\ metrics[1].memory.page_faults
                   = ResetAwareDelta(vm_seen[2].faults, good.vm[1].faults)
        /\ (/\ Len(disk_seen) = 2
            /\ DiskReadFailed(disk_seen[1]) /\ ~DiskReadFailed(disk_seen[2])) =>
              ListedDisks = DOMAIN disk_seen[2] \cap DOMAIN good.disk

\* C16: a collect before which no raw counter changed since the collect before
\* it reports page_ins, page_outs and page_faults of 0 and, for every listed
\* disk whose counters stood still, four rates of 0, an elapsed time of 0 between
\* the two calls included.
C16_NoChangeNoDelta ==
    Returned =>
        /\ (Len(vm_seen) = 2 /\ vm_seen[1] = vm_seen[2]) =>
              /\ metrics[1].memory.page_ins = 0
              /\ metrics[1].memory.page_outs = 0
              /\ metrics[1].memory.page_faults = 0
        /\ Len(disk_seen) = 2 =>
              \A i \in DOMAIN metrics[1].disks :
                  LET e == metrics[1].disks[i]
                  IN  disk_seen[1][e.name] = disk_seen[2][e.name] =>
                        /\ e.read_bytes_per_sec = 0 /\ e.write_bytes_per_sec = 0
                        /\ e.read_ops_per_sec = 0 /\ e.write_ops_per_sec = 0

\* two collects with no time between them and disk0 standing at 1,000,000 bytes read
C16_Witness ==
    /\ Returned /\ Len(vm_seen) = 2 /\ Len(disk_seen) = 2
    /\ MeasuredElapsed = 0
    /\ vm_seen[1] = vm_seen[2] /\ vm_seen[2].faults = 120
    /\ disk_seen[1] = disk_seen[2]
    /\ DOMAIN disk_seen[2] = {"disk0"} /\ disk_seen[2]["disk0"].read_bytes = 1000000
    /\ Len(metrics[1].disks) = 1
    /\ metrics[1].disks[1].read_bytes_per_sec = 0
    /\ metrics[1].memory.page_faults = 0

\* one of the page-size, memory-size and core-count reads failed at construction
StaticReadFailed == \E name \in DOMAIN boot.sysctl : ~boot.sysctl[name].ok

\* C17: when a static read fails MetricsCollector::new returns an error and no
\* collector is built from defaulted values.
C17_NewFailsWithoutStaticInfo ==
    (pc # "start" /\ StaticReadFailed) => pc = "failed"

\* IOReport::new, Smc::new could not initialize their source
IoInitFailed ==
    ~boot.ioreport.dlopen \/ boot.ioreport.channels = 0 \/ ~boot.ioreport.subscription
SmcInitFailed == boot.smc # "ok"

\* C18: an optional source that fails to initialize does not fail construction;
\* the source stays absent for the life of the collector, and every snapshot
\* has the sections IOReport feeds at their defaults: the five power fields 0,
\* gpu and ane default, the clusters the placeholders of the machine's tiers.
C18_OptionalSourceAbsent ==
    (pc # "start" /\ (IoInitFailed \/ SmcInitFailed)) =>
        /\ pc # "failed"
        /\ SmcInitFailed => ~smc.some
        /\ IoInitFailed =>
              /\ ~ioreport.some
              /\ Returned =>
                    LET m == metrics[1]
                    IN  /\ FracEq(m.system.total_power_watts, Zero)
                        /\ FracEq(m.system.cpu_power_watts, Zero)
                        /\ FracEq(m.system.gpu_power_watts, Zero)
                        /\ FracEq(m.system.ane_power_watts, Zero)
                        /\ FracEq(m.system.dram_power_watts, Zero)
                        /\ FracEq(m.gpu.power_watts, Zero) /\ FracEq(m.gpu.active_pct, Zero)
                        /\ m.gpu.freq_mhz = 0 /\ m.gpu.freq_max_mhz = 0
                        /\ FracEq(m.ane.power_watts, Zero)
                        /\ ClusterNames = MachineTiers
                        /\ \A i \in DOMAIN m.cpu_clusters :
                              /\ FracEq(m.cpu_clusters[i].active_pct, Zero)
                              /\ FracEq(m.cpu_clusters[i].idle_pct, Hundred)
                              /\ FracEq(m.cpu_clusters[i].power_watts, Zero)

\* the third snapshot of a collector whose subscription could not be created
\* and whose SMC connection could not be opened
C18_Witness ==
    /\ Returned /\ sample_count = 2
    /\ boot.ioreport = IoOs(TRUE, 1, FALSE) /\ boot.smc = "open_failed"
    /\ ~ioreport.some /\ ~smc.some
    /\ ClusterNames = <<"E-Cluster", "P-Cluster">>
    /\ FracEq(metrics[1].system.total_power_watts, Zero)

\* C19: every handle a source acquires is released exactly once by the time
\* the source is dropped: none is released that is not held, at most one
\* sample dictionary is retained, and after teardown none is still held.
C19_HandlesReleasedOnce ==
    /\ \A kind \in HandleKinds : ~handles[kind].over
    /\ handles["sample"].live <= 1
    /\ pc = "exit" => \A kind \in HandleKinds : handles[kind].live = 0

\* the power domain an energy channel is classified into: the first of CPU,
\* GPU, ANE, DRAM its name contains
DomainOf(channel) ==
    IF Contains(channel, PAT_CPU) THEN "cpu"
    ELSE IF Contains(channel, PAT_GPU) THEN "gpu"
    ELSE IF Contains(channel, PAT_ANE) THEN "ane"
    ELSE IF Contains(channel, PAT_DRAM) THEN "dram"
    ELSE "none"

\* the sum of raw / 1000 / 1000 over the energy channels of the domain
RECURSIVE DomainWatts(_, _)
DomainWatts(samples, domain) ==
    IF samples = <<>> THEN Zero
    ELSE LET r == Head(samples)
             rest == DomainWatts(Tail(samples), domain)
         IN  IF r.group = "Energy Model" /\ DomainOf(r.channel) = domain
             THEN FracAdd(Frac(r.value, 1000000), rest)
             ELSE rest

\* C20: each of the four power-domain accumulators of the snapshot is the sum
\* of the converted values of all energy channels of the interval classified
\* into its domain; a later channel adds to the earlier ones.
C20_DomainSums ==
    Returned =>
        /\ FracEq(metrics[1].system.cpu_power_watts, DomainWatts(io_seen, "cpu"))
        /\ FracEq(metrics[1].system.gpu_power_watts, DomainWatts(io_seen, "gpu"))
        /\ FracEq(metrics[1].system.ane_power_watts, DomainWatts(io_seen, "ane"))
        /\ FracEq(metrics[1].system.dram_power_watts, DomainWatts(io_seen, "dram"))

\* two channels of the CPU domain, 70 each: 140 millionths of a watt
C20_Witness ==
    /\ Returned /\ Len(io_seen) = 2
    /\ \A k \in {1, 2} :
          /\ io_seen[k].group = "Energy Model"
          /\ DomainOf(io_seen[k].channel) = "cpu" /\ io_seen[k].value = 70
    /\ FracEq(metrics[1].system.cpu_power_watts, Frac(140, 1000000))

\* the sections of a snapshot computed from the channel readings
Sections(m) == [cpu_clusters |-> m.cpu_clusters, gpu |-> m.gpu, ane |-> m.ane, system |-> m.system]

\* C21: each reading adds to at most one cluster and at most one power domain,
\* efficiency before performance and CPU before GPU before ANE before DRAM,
\* and the sections of the snapshot are the same whatever the order in which
\* the readings of the interval arrive.
C21_OrderIndependent ==
    LET TiersOf(sample) ==
            LET acc == AccStep(AccInit, sample)
            IN  { t \in {"ecpu", "pcpu"} :
                    IF t = "ecpu" THEN acc.ecpu_total # 0 ELSE acc.pcpu_total # 0 }
        DomainsOf(sample) ==
            LET sys == AccStep(AccInit, sample).system
            IN  { d \in {"cpu", "gpu", "ane", "dram"} :
                    ~FracEq(CASE d = "cpu" -> sys.cpu_power_watts
                              [] d = "gpu" -> sys.gpu_power_watts
                              [] d = "ane" -> sys.ane_power_watts
                              [] d = "dram" -> sys.dram_power_watts, Zero) }
        Reorderings(samples) ==
            { [k \in 1..Len(samples) |-> samples[p[k]]] : p \in Orders(1..Len(samples)) }
    IN  (Returned /\ ioreport.some) =>
            /\ \A k \in DOMAIN io_seen :
                  Cardinality(TiersOf(io_seen[k])) + Cardinality(DomainsOf(io_seen[k])) <= 1
            /\ \A s \in Reorderings(io_seen) :
                  Sections(CollectIoreportMetrics([some |-> TRUE, prev_sample |-> TRUE],
                                                  sysctl_info, [outcome |-> "ok", samples |-> s]))
                      = Sections(metrics[1])

\* a reading the aggregation has a use for: a residency reading of a
\* performance-states subgroup whose channel names a cluster, or an energy
\* reading whose channel names a power domain
Recognized(sample) ==
    \/ /\ sample.group = "CPU Stats"
       /\ Contains(sample.subgroup, PAT_PERF_STATES)
       /\ \E pat \in {PAT_ECPU, PAT_E_CLUSTER, PAT_PCPU, PAT_P_CLUSTER} :
             Contains(sample.channel, pat)
    \/ /\ sample.group = "Energy Model"
       /\ \E pat \in {PAT_CPU, PAT_GPU, PAT_ANE, PAT_DRAM} : Contains(sample.channel, pat)

\* C22: readings of an unrecognized group, of an unrecognized channel, or of a
\* residency subgroup that is not a performance-states one change nothing: the
\* sections of the snapshot are those the recognized readings alone give, and
\* collect() returns.
C22_IgnoredChangeNothing ==
    /\ (pc = "panicked") => io_seen = <<>>
    /\ (Returned /\ ioreport.some) =>
          Sections(metrics[1])
              = Sections(CollectIoreportMetrics([some |-> TRUE, prev_sample |-> TRUE], sysctl_info,
                                                [outcome |-> "ok",
                                                 samples |-> SelectSeq(io_seen, Recognized)]))

\* a CPU energy channel of 70 next to a reading that is ignored
C22_Witness ==
    /\ Returned /\ ioreport.some /\ Len(io_seen) = 2
    /\ \E k \in {1, 2} : ~Recognized(io_seen[k])
    /\ FracEq(metrics[1].system.cpu_power_watts, Frac(70, 1000000))
    /\ FracEq(metrics[1].system.total_power_watts, Frac(70, 1000000))

\* C23: when the VM statistics read of a collect() fails, the snapshot's
\* page_ins, page_outs and page_faults are all 0 whatever the counters stored
\* from the call before, and the failed read makes collect() neither fail nor
\* abort in either build profile.
C23_FailedReadZeroDelta ==
    /\ (Returned /\ VmReadFailed(LastVm)) =>
          /\ metrics[1].memory.page_ins = 0
          /\ metrics[1].memory.page_outs = 0
          /\ metrics[1].memory.page_faults = 0
    /\ (pc \in {"loop", "collect", "output", "sleep"}) =>
          ~MemoryGetMetrics(memory_stats, [result |-> 5, stats |-> VmDefault]).panic

\* a failed read after one that stored 50000 faults
C23_Witness ==
    /\ Returned /\ Len(vm_seen) = 2
    /\ vm_seen[1].faults = 50000 /\ vm_seen[1].pageins = 120
    /\ VmReadFailed(vm_seen[2])
    /\ metrics[1].memory.page_faults = 0 /\ metrics[1].memory.page_ins = 0

\* C24: the per-device power fields agree with the system domain totals of
\* the same snapshot, gpu.power_watts with system.gpu_power_watts and
\* ane.power_watts with system.ane_power_watts, however many GPU and ANE
\* energy channels the interval has.
C24_DevicePowerAgrees ==
    Returned =>
        /\ FracEq(metrics[1].gpu.power_watts, metrics[1].system.gpu_power_watts)
        /\ FracEq(metrics[1].ane.power_watts, metrics[1].system.ane_power_watts)

\* C25: the first collect() after construction takes the previous page
\* counters as 0, so page_ins, page_outs and page_faults of the first snapshot
\* are the cumulative counters as read; its disks list is empty, devices
\* present or not; and the snapshot has no field that marks it as the first.
C25_FirstSnapshot ==
    (Returned /\ Len(measured) = 1) =>
        /\ metrics[1].memory.page_ins = LastVm.pageins
        /\ metrics[1].memory.page_outs = LastVm.pageouts
        /\ metrics[1].memory.page_faults = LastVm.faults
        /\ metrics[1].disks = <<>>
        /\ DOMAIN metrics[1]
             = {"interval_ms", "memory", "cpu_clusters", "gpu", "ane", "disks", "system"}

\* 50000 faults since boot reported by the first snapshot, a disk present
C25_Witness ==
    /\ Returned /\ Len(measured) = 1
    /\ LastVm.faults = 50000 /\ metrics[1].memory.page_faults = 50000
    /\ "disk0" \in DOMAIN disk_seen[1] /\ metrics[1].disks = <<>>

\* C26: the driver loop terminates.  With count n > 0 it makes at most n
\* calls of collect(), exactly n when it is not interrupted, and does not sleep
\* after the n-th; in JSON or append mode the first snapshot is not printed,
\* so n - 1 records are printed by then; with count 0 it leaves the loop only
\* once the Ctrl-C handler has cleared `running`; at most one collect() is made
\* after the flag is cleared; and the loop is left eventually, when a count is
\* given and when the flag is cleared.  (measured has one entry per call of
\* collect().)
C26_MainLoopTerminates ==
    /\ [](/\ args.count > 0 =>
              /\ Len(measured) <= args.count
              /\ (pc = "exit" /\ running) => Len(measured) = args.count
              /\ pc = "sleep" => sample_count < args.count
          /\ (args.json \/ args.append) =>
              /\ first => emitted = 0
              /\ sample_count >= 1 => emitted = sample_count - 1
              /\ (args.count > 0 /\ pc = "exit" /\ running) => emitted = args.count - 1
          /\ args.count = 0 =>
              /\ pc = "exit" => ~running
          /\ cleared_at # <<>> => Len(measured) <= cleared_at[1] + 1)
    /\ (args.count > 0) ~> (pc = "exit")
    /\ (~running) ~> (pc = "exit")

\* --count 2 --json, not interrupted: two collects, one record, then the exit
C26_Witness ==
    /\ pc = "exit" /\ running
    /\ args.count = 2 /\ args.json
    /\ Len(measured) = 2 /\ sample_count = 2 /\ emitted = 1

====
